---- MODULE Spec2Model ----
(***************************************************************************)
(* Simplex (src/simplex.js, the revision of lines 1-318): a pattern         *)
(* expression is compiled by createMatcher into the source text of a       *)
(* regular expression and an ordered list of field names; match and        *)
(* matchAll run that regular expression over a text and map the captures   *)
(* back onto the names.                                                    *)
(*                                                                         *)
(* A JavaScript string is a sequence of one-character strings.  The        *)
(* regular expression engine the code calls (new RegExp, String.match,     *)
(* RegExp.exec, RegExp.test, String.replace) is modelled by a parser of    *)
(* the pattern text and a backtracking matcher that follow ECMAScript's    *)
(* semantics for the syntax the compiled patterns can contain.             *)
(***************************************************************************)
EXTENDS Integers, Sequences, FiniteSets, TLC

(***************************************************************************)
(* Characters and strings                                                  *)
(***************************************************************************)
Letters ==
    { "a", "b", "c", "d", "e", "f", "g", "h", "i", "j", "k", "l", "m",
      "n", "o", "p", "q", "r", "s", "t", "u", "v", "w", "x", "y", "z",
      "A", "B", "C", "D", "E", "F", "G", "H", "I", "J", "K", "L", "M",
      "N", "O", "P", "Q", "R", "S", "T", "U", "V", "W", "X", "Y", "Z" }

Digits == { "0", "1", "2", "3", "4", "5", "6", "7", "8", "9" }

\* \w of a regular expression
WordChars == Letters \cup Digits \cup { "_" }

\* \s of a regular expression (the white space the model's strings can hold)
SpaceChars == { " ", "\t", "\n", "\r", "\f" }

\* the line terminators, which . does not match
LineTerminators == { "\n", "\r" }

\* the value of a capture that took no part in the match (JavaScript undefined)
Undefined == << "undefined" >>

\* String.prototype.substring(from, to), 0-based, to exclusive
Substring(s, from, to) ==
    IF to <= from THEN << >> ELSE SubSeq(s, from + 1, to)

\* the characters of s from 0-based index from on
SubstringFrom(s, from) == Substring(s, from, Len(s))

(***************************************************************************)
(* The regular expression engine: parsing a pattern text                   *)
(*                                                                         *)
(* A node of a parsed pattern is a record:                                 *)
(*   t = "char"   the character c                                          *)
(*   t = "cls"    the class \c, c one of w W s S d D                       *)
(*   t = "any"    .            t = "bol"  ^          t = "eol"  $          *)
(*   t = "wb"     \b (c = "b") or \B (c = "B")                             *)
(*   t = "group"  capturing group number n around the nodes body           *)
(*   t = "ncgroup" (?: ) around the nodes body                             *)
(*   t = "alt"    body is a sequence of alternatives (sequences of nodes)  *)
(*   t = "rep"    body = <<atom>>, repeated min..max times (max = -1 is    *)
(*                unbounded), lazily when lazy; lo+1..hi are the numbers   *)
(*                of the capturing groups inside the atom                  *)
(* and, while matching only:                                               *)
(*   t = "close"  end of capturing group n, which began at position lo     *)
(*   t = "check"  end of one round of a repetition that began at position  *)
(*                lo with min rounds still required                        *)
(*   t = "loop"   the rounds after it: body, min, max, lazy, lo, hi are    *)
(*                those of the rep node it continues                       *)
(***************************************************************************)
Node(t) ==
    [ t |-> t, c |-> "", n |-> 0, lo |-> 0, hi |-> 0,
      min |-> 0, max |-> 0, lazy |-> FALSE, body |-> << >> ]

QuantifierChars == { "*", "+", "?" }

\* the node of the escape \e
EscapeNode(e) ==
    IF e \in { "w", "W", "s", "S", "d", "D" } THEN [ Node("cls") EXCEPT !.c = e ]
    ELSE IF e \in { "b", "B" } THEN [ Node("wb") EXCEPT !.c = e ]
    ELSE IF e = "n" THEN [ Node("char") EXCEPT !.c = "\n" ]
    ELSE IF e = "t" THEN [ Node("char") EXCEPT !.c = "\t" ]
    ELSE IF e = "r" THEN [ Node("char") EXCEPT !.c = "\r" ]
    ELSE IF e = "f" THEN [ Node("char") EXCEPT !.c = "\f" ]
    ELSE [ Node("char") EXCEPT !.c = e ]

\* escapes whose meaning the engine model does not cover (back references,
\* octal, hexadecimal, unicode and control escapes, named groups, \v)
UnsupportedEscapes == Digits \cup { "c", "x", "u", "k", "v" }

(***************************************************************************)
(* The parser reads the pattern text from left to right.  Its state is the *)
(* 1-based index i of the next character, the number n of capturing        *)
(* groups opened so far, the error found ("syntax" is a SyntaxError of new *)
(* RegExp, "unsupported" is syntax the engine model does not cover) and a  *)
(* stack of frames, one for the pattern and one for each group that is     *)
(* open, the innermost last.  A frame holds the kind of its group, its     *)
(* number n, the number lo of groups opened before it, its finished        *)
(* alternatives alts, the nodes cur of the alternative being read, and     *)
(* what its last node is: "none" (nothing a quantifier could repeat),      *)
(* "atom", "rep" (an atom with its quantifier) or "lazyrep"; atomLo is the *)
(* number of groups opened before that last node.                          *)
(***************************************************************************)
Frame(kind, n, lo) ==
    [ kind |-> kind, n |-> n, lo |-> lo, alts |-> << >>, cur |-> << >>,
      last |-> "none", atomLo |-> lo ]

ParseStart ==
    [ i |-> 1, n |-> 0, err |-> "", stack |-> << Frame("top", 0, 0) >> ]

Top(st) == st.stack[Len(st.stack)]

\* st with its innermost frame replaced by f, and k characters read
WithTop(st, f, k) ==
    [ st EXCEPT !.stack[Len(st.stack)] = f, !.i = st.i + k ]

ParseFail(st, kind) == [ st EXCEPT !.err = kind ]

\* the node read as k characters is added to the innermost frame
AddNode(st, node, k) ==
    WithTop(st,
            [ Top(st) EXCEPT
                !.cur = Append(@, node),
                !.last = IF node.t \in { "bol", "eol", "wb" } THEN "none" ELSE "atom",
                !.atomLo = st.n ],
            k)

\* the nodes of a frame that is complete
FrameNodes(f) ==
    IF f.alts = << >> THEN f.cur
    ELSE << [ Node("alt") EXCEPT !.body = Append(f.alts, f.cur) ] >>

\* the group node of the innermost frame, which a ) completes
GroupNode(f) ==
    [ Node(f.kind) EXCEPT !.n = f.n, !.body = FrameNodes(f) ]

\* a ) is read: the innermost frame becomes a node of the frame around it
CloseGroup(st) ==
    IF Len(st.stack) = 1 THEN ParseFail(st, "syntax")
    ELSE [ st EXCEPT
             !.i = st.i + 1,
             !.stack = [ k \in 1..(Len(st.stack) - 1) |->
                           IF k < Len(st.stack) - 1 THEN st.stack[k]
                           ELSE [ st.stack[k] EXCEPT
                                    !.cur = Append(@, GroupNode(Top(st))),
                                    !.last = "atom",
                                    !.atomLo = Top(st).lo ] ] ]

\* a ( is read: a frame is opened
OpenGroup(src, st) ==
    IF st.i < Len(src) /\ src[st.i + 1] = "?" THEN
      IF st.i + 1 < Len(src) /\ src[st.i + 2] = ":"
        THEN [ st EXCEPT !.i = st.i + 3,
                         !.stack = Append(@, Frame("ncgroup", 0, st.n)) ]
      ELSE IF st.i + 1 < Len(src) /\ src[st.i + 2] \in { "=", "!", "<" }
        THEN ParseFail(st, "unsupported")
      ELSE ParseFail(st, "syntax")
    ELSE [ st EXCEPT !.i = st.i + 1, !.n = st.n + 1,
                     !.stack = Append(@, Frame("group", st.n + 1, st.n)) ]

\* a | is read: the alternative being read is finished
NextAlternative(st) ==
    WithTop(st,
            [ Top(st) EXCEPT !.alts = Append(@, Top(st).cur), !.cur = << >>,
                             !.last = "none" ],
            1)

\* the quantifier q is read: it repeats the last node, or makes its
\* repetition lazy
Quantify(st, q) ==
    LET f == Top(st)
        atom == f.cur[Len(f.cur)]
    IN IF f.last = "atom" THEN
         WithTop(st,
                 [ f EXCEPT
                     !.cur[Len(f.cur)] =
                       [ Node("rep") EXCEPT
                           !.min = IF q = "+" THEN 1 ELSE 0,
                           !.max = IF q = "?" THEN 1 ELSE -1,
                           !.lo = f.atomLo, !.hi = st.n,
                           !.body = << atom >> ],
                     !.last = "rep" ],
                 1)
       ELSE IF f.last = "rep" /\ q = "?" THEN
         WithTop(st,
                 [ f EXCEPT !.cur[Len(f.cur)] = [ atom EXCEPT !.lazy = TRUE ],
                            !.last = "lazyrep" ],
                 1)
       ELSE ParseFail(st, "syntax")

\* one step of the parser, at the character src[st.i]
ParseStep(src, st) ==
    LET c == src[st.i] IN
    IF c = "\\" THEN
      IF st.i = Len(src) THEN ParseFail(st, "syntax")
      ELSE IF src[st.i + 1] \in UnsupportedEscapes THEN ParseFail(st, "unsupported")
      ELSE AddNode(st, EscapeNode(src[st.i + 1]), 2)
    ELSE IF c = "(" THEN OpenGroup(src, st)
    ELSE IF c = ")" THEN CloseGroup(st)
    ELSE IF c = "|" THEN NextAlternative(st)
    ELSE IF c \in QuantifierChars THEN Quantify(st, c)
    ELSE IF c = "[" THEN ParseFail(st, "unsupported")
    ELSE IF c = "{" /\ st.i < Len(src) /\ src[st.i + 1] \in Digits
      THEN ParseFail(st, "unsupported")
    ELSE AddNode(st,
                 IF c = "." THEN Node("any")
                 ELSE IF c = "^" THEN Node("bol")
                 ELSE IF c = "$" THEN Node("eol")
                 ELSE [ Node("char") EXCEPT !.c = c ],
                 1)

RECURSIVE ParseFrom(_, _)
\* the parser's state at the end of the pattern text, or at its first error
ParseFrom(src, st) ==
    IF st.err # "" \/ st.i > Len(src) THEN st
    ELSE ParseFrom(src, ParseStep(src, st))

\* the regular expression object of the parser's final state st.  lastIndex
\* is 0 on a new object and is kept by whoever holds the object.
RegExpOf(src, global, st) ==
    IF st.err # "" \/ Len(st.stack) > 1
      THEN [ err |-> IF st.err # "" THEN st.err ELSE "syntax",
             pattern |-> src, global |-> global, nodes |-> << >>, groups |-> 0 ]
      ELSE [ err |-> "", pattern |-> src, global |-> global,
             nodes |-> FrameNodes(st.stack[1]), groups |-> st.n ]

\* new RegExp(src, flags): the regular expression object, or the error that
\* the constructor throws
NewRegExp(src, global) == RegExpOf(src, global, ParseFrom(src, ParseStart))

(***************************************************************************)
(* The regular expression engine: matching                                 *)
(*                                                                         *)
(* Positions are 0-based, as in JavaScript: position p is before the       *)
(* character text[p + 1].  The captures are a sequence with one entry per  *)
(* capturing group: Undefined, or the span [s, e] the group matched.       *)
(***************************************************************************)
NoSpan == [ s |-> -1, e |-> -1 ]

Fail == [ ok |-> FALSE, end |-> 0, caps |-> << >> ]

InClass(k, ch) ==
    CASE k = "w" -> ch \in WordChars
      [] k = "W" -> ch \notin WordChars
      [] k = "s" -> ch \in SpaceChars
      [] k = "S" -> ch \notin SpaceChars
      [] k = "d" -> ch \in Digits
      [] k = "D" -> ch \notin Digits

\* whether position pos of text is between a word character and a non-word one
AtWordBoundary(text, pos) ==
    LET a == pos > 0 /\ text[pos] \in WordChars
        b == pos < Len(text) /\ text[pos + 1] \in WordChars
    IN a # b

\* the captures with those of the groups lo+1..hi cleared
ClearCaptures(caps, lo, hi) ==
    [ k \in 1..Len(caps) |-> IF k > lo /\ k <= hi THEN NoSpan ELSE caps[k] ]

RECURSIVE MatchNodes(_, _, _, _)
RECURSIVE MatchAlternatives(_, _, _, _, _)
RECURSIVE MatchRun(_, _, _, _, _)

\* whether the one-character node x accepts the character ch
Accepts(x, ch) ==
    CASE x.t = "char" -> ch = x.c
      [] x.t = "cls" -> InClass(x.c, ch)
      [] x.t = "any" -> ch \notin LineTerminators

\* how many characters of text from position pos on the node x accepts in a row
RunLength(x, text, pos) ==
    CHOOSE n \in 0..(Len(text) - pos) :
      /\ \A k \in 1..n : Accepts(x, text[pos + k])
      /\ n = Len(text) - pos \/ ~Accepts(x, text[pos + n + 1])

\* a repetition of a one-character node that is tried with n rounds, then with
\* the next count in run (from most to fewest rounds when greedy, from fewest
\* to most when lazy), each followed by the nodes rest
MatchRun(run, n, rest, text, st) ==
    IF n < run.lo \/ n > run.hi THEN Fail
    ELSE LET r == MatchNodes(rest, text, st.pos + n, st.caps) IN
         IF r.ok THEN r
         ELSE MatchRun(run, IF run.lazy THEN n + 1 ELSE n - 1, rest, text, st)

\* ECMAScript's RepeatMatcher for the node rep, followed by the nodes rest.
\* Every round of a one-character node takes one character, so its rounds
\* are counted in one step; the rounds of a group are followed one by one.
MatchRepeat(rep, rest, text, pos, caps) ==
    IF rep.max = 0 THEN MatchNodes(rest, text, pos, caps)
    ELSE IF rep.body[1].t \in { "char", "cls", "any" } THEN
      LET len == RunLength(rep.body[1], text, pos)
          most == IF rep.max = -1 \/ len < rep.max THEN len ELSE rep.max
          run == [ lo |-> rep.min, hi |-> most, lazy |-> rep.lazy ]
      IN MatchRun(run, IF rep.lazy THEN rep.min ELSE most, rest, text,
                  [ pos |-> pos, caps |-> caps ])
    ELSE
      LET check == [ Node("check") EXCEPT !.lo = pos, !.min = rep.min ]
          again == [ rep EXCEPT !.t = "loop",
                       !.min = IF rep.min = 0 THEN 0 ELSE rep.min - 1,
                       !.max = IF rep.max = -1 THEN -1 ELSE rep.max - 1 ]
          round == MatchNodes(rep.body \o << check, again >> \o rest, text, pos,
                              ClearCaptures(caps, rep.lo, rep.hi))
      IN IF rep.min # 0 THEN round
         ELSE IF rep.lazy THEN
           LET skip == MatchNodes(rest, text, pos, caps) IN
           IF skip.ok THEN skip ELSE round
         ELSE IF round.ok THEN round
         ELSE MatchNodes(rest, text, pos, caps)

\* the first of the alternatives alts[k..], each followed by rest, that matches
MatchAlternatives(alts, k, rest, text, st) ==
    IF k > Len(alts) THEN Fail
    ELSE LET r == MatchNodes(alts[k] \o rest, text, st.pos, st.caps) IN
         IF r.ok THEN r ELSE MatchAlternatives(alts, k + 1, rest, text, st)

\* the backtracking matcher: the nodes, in order, against text from position
\* pos on, with the captures so far.  The first way to match that the
\* priorities of ECMAScript find is the one returned.
MatchNodes(nodes, text, pos, caps) ==
    IF nodes = << >> THEN [ ok |-> TRUE, end |-> pos, caps |-> caps ]
    ELSE
      LET x == Head(nodes)
          rest == Tail(nodes)
      IN CASE x.t = "char" ->
                IF pos < Len(text) /\ text[pos + 1] = x.c
                  THEN MatchNodes(rest, text, pos + 1, caps) ELSE Fail
           [] x.t = "cls" ->
                IF pos < Len(text) /\ InClass(x.c, text[pos + 1])
                  THEN MatchNodes(rest, text, pos + 1, caps) ELSE Fail
           [] x.t = "any" ->
                IF pos < Len(text) /\ text[pos + 1] \notin LineTerminators
                  THEN MatchNodes(rest, text, pos + 1, caps) ELSE Fail
           [] x.t = "bol" ->
                IF pos = 0 THEN MatchNodes(rest, text, pos, caps) ELSE Fail
           [] x.t = "eol" ->
                IF pos = Len(text) THEN MatchNodes(rest, text, pos, caps) ELSE Fail
           [] x.t = "wb" ->
                IF AtWordBoundary(text, pos) = (x.c = "b")
                  THEN MatchNodes(rest, text, pos, caps) ELSE Fail
           [] x.t = "group" ->
                MatchNodes(x.body
                             \o << [ Node("close") EXCEPT !.n = x.n, !.lo = pos ] >>
                             \o rest,
                           text, pos, caps)
           [] x.t = "close" ->
                MatchNodes(rest, text, pos,
                           [ caps EXCEPT ![x.n] = [ s |-> x.lo, e |-> pos ] ])
           [] x.t = "ncgroup" -> MatchNodes(x.body \o rest, text, pos, caps)
           [] x.t = "alt" ->
                MatchAlternatives(x.body, 1, rest, text, [ pos |-> pos, caps |-> caps ])
           [] x.t \in { "rep", "loop" } -> MatchRepeat(x, rest, text, pos, caps)
           [] x.t = "check" ->
                IF x.min = 0 /\ pos = x.lo THEN Fail
                ELSE MatchNodes(rest, text, pos, caps)

RECURSIVE SearchFrom(_, _, _)
\* the leftmost match of the regular expression re in text that starts at
\* position from or later: [ok, index, end, caps]
SearchFrom(re, text, from) ==
    IF from > Len(text) THEN [ ok |-> FALSE, index |-> 0, end |-> 0, caps |-> << >> ]
    ELSE LET r == MatchNodes(re.nodes, text, from, [ k \in 1..re.groups |-> NoSpan ]) IN
         IF r.ok THEN [ ok |-> TRUE, index |-> from, end |-> r.end, caps |-> r.caps ]
         ELSE SearchFrom(re, text, from + 1)

\* the array a successful search returns: element 0 is the matched text,
\* element k the text of capture k or undefined.  Element j is arr[j + 1].
\* index and end are the span of the match in the text.
MatchArray(text, found) ==
    [ index |-> found.index,
      end |-> found.end,
      arr |-> << Substring(text, found.index, found.end) >>
                \o [ k \in 1..Len(found.caps) |->
                       IF found.caps[k] = NoSpan THEN Undefined
                       ELSE Substring(text, found.caps[k].s, found.caps[k].e) ] ]

\* the value null
Null == [ index |-> -1, end |-> -1, arr |-> << >> ]

\* what exec returns when its search has found found: the array or null, and
\* the new lastIndex
ExecResult(re, lastIndex, text, found) ==
    IF found.ok
      THEN [ match |-> MatchArray(text, found),
             lastIndex |-> IF re.global THEN found.end ELSE lastIndex ]
      ELSE [ match |-> Null,
             lastIndex |-> IF re.global THEN 0 ELSE lastIndex ]

\* RegExp.prototype.exec(text) on a regular expression object whose lastIndex
\* is lastIndex: the search starts at lastIndex with the global flag and at 0
\* without it, and without it lastIndex is neither read nor written
RegExpExec(re, lastIndex, text) ==
    ExecResult(re, lastIndex, text,
               SearchFrom(re, text, IF re.global THEN lastIndex ELSE 0))

\* RegExp.prototype.test(text) on a regular expression without the global flag
RegExpTest(re, text) == RegExpExec(re, 0, text).match # Null

\* String.prototype.match(re) for a regular expression without the global
\* flag: the same as re.exec(text)
StringMatch(text, re) == RegExpExec(re, 0, text).match

\* the source property of a regular expression object made from the pattern
\* text src (EscapeRegExpPattern): an empty pattern reads (?:), and / and the
\* line terminators are written as escapes
EscapeSourceChar(ch) ==
    IF ch = "/" THEN << "\\", "/" >>
    ELSE IF ch = "\n" THEN << "\\", "n" >>
    ELSE IF ch = "\r" THEN << "\\", "r" >>
    ELSE << ch >>

RECURSIVE EscapeSource(_, _)
\* the characters of src from index i on, a character that follows a backslash
\* being part of an escape already
EscapeSource(src, i) ==
    IF i > Len(src) THEN << >>
    ELSE IF src[i] = "\\" /\ i < Len(src)
      THEN << src[i], src[i + 1] >> \o EscapeSource(src, i + 2)
    ELSE EscapeSourceChar(src[i]) \o EscapeSource(src, i + 1)

RegExpSource(re) ==
    IF re.pattern = << >> THEN << "(", "?", ":", ")" >>
    ELSE EscapeSource(re.pattern, 1)


(***************************************************************************)
(* JavaScript values that the options can hold                             *)
(***************************************************************************)
JSUndefined ==
    [ kind |-> "undefined", s |-> << >>, items |-> << >>, b |-> FALSE, num |-> 0,
      left |-> Undefined, right |-> Undefined ]

JSNull == [ JSUndefined EXCEPT !.kind = "null" ]

JSString(s) == [ JSUndefined EXCEPT !.kind = "string", !.s = s ]

JSNumber(n) == [ JSUndefined EXCEPT !.kind = "number", !.num = n ]

JSBoolean(b) == [ JSUndefined EXCEPT !.kind = "boolean", !.b = b ]

\* an array of strings
JSArray(items) == [ JSUndefined EXCEPT !.kind = "array", !.items = items ]

\* an object without properties
JSEmptyObject == [ JSUndefined EXCEPT !.kind = "object" ]

\* an object with the properties left and right (Undefined: no such property)
JSObject(left, right) == [ JSEmptyObject EXCEPT !.left = left, !.right = right ]

\* ToBoolean
Truthy(v) ==
    CASE v.kind \in { "undefined", "null" } -> FALSE
      [] v.kind = "string" -> v.s # << >>
      [] v.kind = "number" -> v.num # 0
      [] v.kind = "boolean" -> v.b
      [] OTHER -> TRUE

\* v[k] for k = 0 or 1, where the elements are strings: the string, or
\* Undefined.  Only an array has the properties 0 and 1 (a string is split
\* before it is indexed; a number, a boolean and an object with the
\* properties left and right have neither).
Index(v, k) ==
    IF v.kind = "array" /\ k < Len(v.items) THEN v.items[k + 1] ELSE Undefined

(***************************************************************************)
(* src/simplex.js, lines 1-318                                             *)
(***************************************************************************)

\* the characters escapeRegex puts a backslash before
EscapedChars == { "(", ")", "[", "]", "{", "}", "^", "$" }

RECURSIVE EscapeChars(_)
EscapeChars(s) ==
    IF s = << >> THEN << >>
    ELSE (IF Head(s) \in EscapedChars THEN << "\\", Head(s) >> ELSE << Head(s) >>)
           \o EscapeChars(Tail(s))

\* escapeRegex(source): (source || '') with ( ) [ ] { } ^ $ escaped
escapeRegex(source) ==
    IF source = Undefined THEN << >> ELSE EscapeChars(source)

RECURSIVE ReplaceWhitespace(_, _)
\* segment.replace(/\s+/g, '\\s+') from index i on: every maximal run of white
\* space becomes the three characters \s+
ReplaceWhitespace(s, i) ==
    IF i > Len(s) THEN << >>
    ELSE IF s[i] \in SpaceChars THEN
      IF i > 1 /\ s[i - 1] \in SpaceChars THEN ReplaceWhitespace(s, i + 1)
      ELSE << "\\", "s", "+" >> \o ReplaceWhitespace(s, i + 1)
    ELSE << s[i] >> \o ReplaceWhitespace(s, i + 1)

\* getPatternSegment(segment, options)
getPatternSegment(segment, options) ==
    IF ~options.strictWhitespace
      THEN ReplaceWhitespace(escapeRegex(segment), 1)
      ELSE escapeRegex(segment)

\* parseFieldMarkers that takes the first character of a string for the left
\* marker and the rest for the right one
parseFieldMarkers_firstChar(input) ==
    IF ~Truthy(input) THEN JSNull
    ELSE IF input.kind = "string" THEN
      JSArray(<< Substring(input.s, 0, 1), SubstringFrom(input.s, 1) >>)
    ELSE input

\* parseFieldMarkers(input): null, the two halves of a string, or the input
parseFieldMarkers(input) ==
    IF ~Truthy(input) THEN JSNull
    ELSE IF input.kind = "string" THEN
      JSArray(<< Substring(input.s, 0, Len(input.s) \div 2),
                 SubstringFrom(input.s, Len(input.s) \div 2) >>)
    ELSE input

\* the text (\w+)\*? that a token matcher holds between the markers
TokenCore == << "(", "\\", "w", "+", ")", "\\", "*", "?" >>

\* getTokenMatcher that leaves the field markers out of its pattern
getTokenMatcher_unmarked(fieldMarkers) == NewRegExp(TokenCore, TRUE)

\* getTokenMatcher(fieldMarkers): a regular expression with the global flag
getTokenMatcher(fieldMarkers) ==
    IF ~Truthy(fieldMarkers) THEN NewRegExp(TokenCore, TRUE)
    ELSE NewRegExp(escapeRegex(Index(fieldMarkers, 0)) \o TokenCore
                     \o escapeRegex(Index(fieldMarkers, 1)), TRUE)

\* isMultiwordToken(match, fieldMarkers): the regular expression it tests
\* match with (new RegExp can throw: err is then not "")
MultiwordTest(fieldMarkers) ==
    IF Truthy(fieldMarkers) /\ Index(fieldMarkers, 1) \notin { Undefined, << >> }
      THEN NewRegExp(<< "\\", "*" >> \o escapeRegex(Index(fieldMarkers, 1)), FALSE)
      ELSE NewRegExp(<< "\\", "*", "$" >>, FALSE)

isMultiwordToken(match, fieldMarkers) ==
    RegExpTest(MultiwordTest(fieldMarkers), match)

\* the capture placeholders createMatcher writes
MultiwordCapture == << "(", ".", "*", ")" >>

WordCapture == << "(", "\\", "w", "+", ")" >>

\* Placeholder that takes no token for a multi-word one
Placeholder_wordOnly(token, fieldMarkers) == WordCapture

\* the placeholder for the token whose text is token
Placeholder(token, fieldMarkers) ==
    IF isMultiwordToken(token, fieldMarkers) THEN MultiwordCapture ELSE WordCapture

\* Remainder that leaves out a remainder of one character
Remainder_butOne(expression, index, options) ==
    IF index < Len(expression) - 1
      THEN getPatternSegment(SubstringFrom(expression, index), options)
      ELSE << >>

\* the text of the segment after the last token: expression.substring(index)
\* when index < expression.length
Remainder(expression, index, options) ==
    IF index < Len(expression)
      THEN getPatternSegment(SubstringFrom(expression, index), options)
      ELSE << >>

\* new RegExp(pattern) of createMatcher
CompilePattern(pattern) == NewRegExp(pattern, FALSE)

\* the locals of createMatcher before its while loop; tokens lists the
\* matches of the token matcher so far: the text of each (tokenMatch[0]), where
\* it starts, its name (tokenMatch[1]) and the placeholder written for it
NoTokens ==
    [ pattern |-> << >>, index |-> 0, map |-> << >>, tokens |-> << >>,
      lastIndex |-> 0, threw |-> FALSE ]

\* the locals after the body of the loop for the token of ex.match, capture
\* being the placeholder written for it
Scanned(expression, options, loc, ex, capture) ==
    [ pattern |-> loc.pattern
        \o getPatternSegment(
             Substring(expression, loc.index, ex.match.index), options)
        \o capture,
      index |-> ex.match.index + Len(ex.match.arr[1]),
      map |-> Append(loc.map, ex.match.arr[2]),
      tokens |-> Append(loc.tokens,
                        [ text |-> ex.match.arr[1], start |-> ex.match.index,
                          name |-> ex.match.arr[2], capture |-> capture ]),
      lastIndex |-> ex.lastIndex,
      threw |-> FALSE ]

RECURSIVE ScanTokens(_, _, _, _, _)
RECURSIVE ScanToken(_, _, _, _, _, _)

\* the while loop of createMatcher: loc holds the locals pattern, index, map
\* and the token matcher's lastIndex; threw says that isMultiwordToken's
\* new RegExp threw
ScanTokens(expression, options, fieldMarkers, tokenMatcher, loc) ==
    ScanToken(expression, options, fieldMarkers, tokenMatcher, loc,
              RegExpExec(tokenMatcher, loc.lastIndex, expression))

\* the loop's test of what tokenMatcher.exec(expression) returned, and its body
ScanToken(expression, options, fieldMarkers, tokenMatcher, loc, ex) ==
    IF ex.match = Null THEN loc
    ELSE IF MultiwordTest(fieldMarkers).err # "" THEN [ loc EXCEPT !.threw = TRUE ]
    ELSE ScanTokens(expression, options, fieldMarkers, tokenMatcher,
           Scanned(expression, options, loc, ex,
                   Placeholder(ex.match.arr[1], fieldMarkers)))

\* what createMatcher returns when it throws
Threw == [ threw |-> TRUE, pattern |-> NewRegExp(<< >>, FALSE), map |-> << >> ]

\* the object createMatcher returns: the regular expression re and the names
Matcher(re, map) ==
    IF re.err # "" THEN Threw
    ELSE [ threw |-> FALSE, pattern |-> re, map |-> map ]

\* createMatcher after its while loop, whose locals are loc
AfterTokens(expression, options, loc) ==
    IF loc.threw THEN Threw
    ELSE Matcher(CompilePattern(loc.pattern
                                  \o Remainder(expression, loc.index, options)),
                 loc.map)

\* createMatcher with its token matcher made
WithTokenMatcher(expression, options, fieldMarkers, tokenMatcher) ==
    IF tokenMatcher.err # "" THEN Threw
    ELSE AfterTokens(expression, options,
                     ScanTokens(expression, options, fieldMarkers, tokenMatcher,
                                NoTokens))

\* createMatcher with its field markers parsed
WithFieldMarkers(expression, options, fieldMarkers) ==
    WithTokenMatcher(expression, options, fieldMarkers,
                     getTokenMatcher(fieldMarkers))

\* createMatcher(expression, options): threw says that one of its new RegExp
\* calls threw; otherwise pattern is the regular expression and map the names
createMatcher(expression, options) ==
    WithFieldMarkers(expression, options, parseFieldMarkers(options.fieldMarkers))

\* the locals of createMatcher where it returns or throws: the field markers
\* as parsed, the tokens its loop found, and the text of the pattern
LocalsAfter(expression, options, fieldMarkers, loc) ==
    [ fieldMarkers |-> fieldMarkers,
      tokens |-> loc.tokens,
      pattern |-> IF loc.threw THEN loc.pattern
                  ELSE loc.pattern \o Remainder(expression, loc.index, options) ]

LocalsScan(expression, options, fieldMarkers, tokenMatcher) ==
    LocalsAfter(expression, options, fieldMarkers,
                IF tokenMatcher.err # "" THEN [ NoTokens EXCEPT !.threw = TRUE ]
                ELSE ScanTokens(expression, options, fieldMarkers, tokenMatcher,
                                NoTokens))

LocalsWith(expression, options, fieldMarkers) ==
    LocalsScan(expression, options, fieldMarkers, getTokenMatcher(fieldMarkers))

createMatcherLocals(expression, options) ==
    LocalsWith(expression, options, parseFieldMarkers(options.fieldMarkers))

(***************************************************************************)
(* Values of a match result                                                *)
(***************************************************************************)
StringValue(s) == [ kind |-> "string", s |-> s, num |-> 0, b |-> FALSE ]

NumberValue(n) == [ kind |-> "number", s |-> << >>, num |-> n, b |-> FALSE ]

BooleanValue(b) == [ kind |-> "boolean", s |-> << >>, num |-> 0, b |-> b ]

UndefinedValue == [ kind |-> "undefined", s |-> << >>, num |-> 0, b |-> FALSE ]

DigitValue(ch) ==
    CASE ch = "0" -> 0 [] ch = "1" -> 1 [] ch = "2" -> 2 [] ch = "3" -> 3
      [] ch = "4" -> 4 [] ch = "5" -> 5 [] ch = "6" -> 6 [] ch = "7" -> 7
      [] ch = "8" -> 8 [] ch = "9" -> 9

RECURSIVE ToNumber(_, _)
\* Number(string) of a string of decimal digits, acc being the value so far
ToNumber(s, acc) ==
    IF s = << >> THEN acc ELSE ToNumber(Tail(s), 10 * acc + DigitValue(Head(s)))

\* /^\d+$/.test(string)
AllDigits(s) == s # Undefined /\ s # << >> /\ \A k \in 1..Len(s) : s[k] \in Digits

\* /^(?:true|false)$/.test(string)
TrueOrFalse(s) ==
    s \in { << "t", "r", "u", "e" >>, << "f", "a", "l", "s", "e" >> }

\* weakParse(string): Boolean(string) is true of every non-empty string
weakParse(string) ==
    IF AllDigits(string) THEN NumberValue(ToNumber(string, 0))
    ELSE IF TrueOrFalse(string) THEN BooleanValue(string # << >>)
    ELSE IF string = Undefined THEN UndefinedValue
    ELSE StringValue(string)

\* SetProperty that leaves a property that is already set as it is
SetProperty_keepsFirst(data, key, value) ==
    IF \E k \in 1..Len(data) : data[k].key = key
      THEN data
      ELSE Append(data, [ key |-> key, value |-> value ])

\* data[key] = value on an object held as the sequence of its properties in
\* the order they were added
SetProperty(data, key, value) ==
    IF \E k \in 1..Len(data) : data[k].key = key
      THEN [ k \in 1..Len(data) |->
               IF data[k].key = key THEN [ key |-> key, value |-> value ] ELSE data[k] ]
      ELSE Append(data, [ key |-> key, value |-> value ])

\* match[j] of the array of a regular expression match
Element(match, j) == IF j < Len(match.arr) THEN match.arr[j + 1] ELSE Undefined

RECURSIVE MapMatchFrom(_, _, _, _)
\* the for loop of mapMatch from i on
MapMatchFrom(match, map, i, data) ==
    IF i >= Len(map) \/ i > Len(match.arr) THEN data
    ELSE MapMatchFrom(match, map, i + 1,
                      SetProperty(data, map[i + 1], weakParse(Element(match, i + 1))))

\* mapMatch(match, map)
mapMatch(match, map) == MapMatchFrom(match, map, 0, << >>)

(***************************************************************************)
(* The expressions and the texts the model draws                           *)
(***************************************************************************)
\* the strings over chars of length at most n
Strings(chars, n) == UNION { [ 1..k -> chars ] : k \in 0..n }

MaxExprLen == 3

MaxTextLen == 2

\* a field name, white space, a plain separator and the multi-word mark
ExprChars == { "a", " ", "=", "*" }

TextChars == { "x", " ", "=" }

\* the expressions and texts of the documentation's examples, and
\* expressions with characters that a regular expression gives a meaning
\* that escapeRegex leaves alone
\* '<tags*>' (src/simplex.js line 64)
TagsExpr ==
    << "<", "t", "a", "g", "s", "*", ">" >>

\* '--format=<format>' (README.md line 91)
FormatExpr ==
    << "-", "-", "f", "o", "r", "m", "a", "t", "=", "<", "f", "o", "r", "m", "a", "t", ">" >>

\* 'a b c'
WordsExpr ==
    << "a", " ", "b", " ", "c" >>

\* 'pairName=[x,y]'
PairExpr ==
    << "p", "a", "i", "r", "N", "a", "m", "e", "=", "[", "x", ",", "y", "]" >>

\* '(x, y)' (src/simplex.js line 61)
PointExpr ==
    << "(", "x", ",", " ", "y", ")" >>

\* 'a+b': a separator that is a quantifier of regular expressions
PlusExpr ==
    << "a", "+", "b" >>

\* 'a +b': white space before such a separator
SpacePlusExpr ==
    << "a", " ", "+", "b" >>

\* '\(a\)': backslashes before the brackets
BackslashExpr ==
    << "\\", "(", "a", "\\", ")" >>

\* '<a*>=<b> c': two marked fields and a word outside markers
MarkedExpr ==
    << "<", "a", "*", ">", "=", "<", "b", ">", " ", "c" >>

\* 'blah <foo bar> blah'
TagsText ==
    << "b", "l", "a", "h", " ", "<", "f", "o", "o", " ", "b", "a", "r", ">", " ", "b", "l", "a", "h" >>

\* '--format=html'
FormatText ==
    << "-", "-", "f", "o", "r", "m", "a", "t", "=", "h", "t", "m", "l" >>

\* 'foo   bar\tbaz'
WordsText ==
    << "f", "o", "o", " ", " ", " ", "b", "a", "r", "\t", "b", "a", "z" >>

\* 'foo=[a,b]&bar=[c,d]'
PairText ==
    << "f", "o", "o", "=", "[", "a", ",", "b", "]", "&", "b", "a", "r", "=", "[", "c", ",", "d", "]" >>

\* '(1, 2) (3, 4)'
PointText ==
    << "(", "1", ",", " ", "2", ")", " ", "(", "3", ",", " ", "4", ")" >>

\* 'x+y'
PlusText ==
    << "x", "+", "y" >>

\* 'x  y'
SpacesText ==
    << "x", " ", " ", "y" >>

\* '\x\'
BackslashText ==
    << "\\", "x", "\\" >>

\* 'x y=z c'
MarkedText ==
    << "x", " ", "y", "=", "z", " ", "c" >>

\* 'a a': a field name that occurs twice
RepeatExpr ==
    << "a", " ", "a" >>

\* 'a b': two fields for the values of weakParse's examples
ValuesExpr ==
    << "a", " ", "b" >>

\* 'year/month/day' (README.md line 130)
DateExpr ==
    << "y", "e", "a", "r", "/", "m", "o", "n", "t", "h", "/", "d", "a", "y" >>

\* '<a> a': a word between markers and a word outside them
FieldExpr ==
    << "<", "a", ">", " ", "a" >>

\* 'x y'
RepeatText ==
    << "x", " ", "y" >>

\* 'true false'
BooleansText ==
    << "t", "r", "u", "e", " ", "f", "a", "l", "s", "e" >>

\* 'tru 12a'
NearlyText ==
    << "t", "r", "u", " ", "1", "2", "a" >>

\* '2014/02/10'
DateText ==
    << "2", "0", "1", "4", "/", "0", "2", "/", "1", "0" >>

\* 'foo/bar/12a'
WordDateText ==
    << "f", "o", "o", "/", "b", "a", "r", "/", "1", "2", "a" >>

\* '<x> y'
FieldText ==
    << "<", "x", ">", " ", "y" >>

ExampleExprs ==
    { TagsExpr,
      FormatExpr,
      WordsExpr,
      PairExpr,
      PointExpr,
      PlusExpr,
      SpacePlusExpr,
      BackslashExpr,
      MarkedExpr,
      RepeatExpr,
      ValuesExpr,
      DateExpr,
      FieldExpr }

ExampleTexts ==
    { TagsText,
      FormatText,
      WordsText,
      PairText,
      PointText,
      PlusText,
      SpacesText,
      BackslashText,
      MarkedText,
      RepeatText,
      BooleansText,
      NearlyText,
      DateText,
      WordDateText,
      FieldText }

Exprs == Strings(ExprChars, MaxExprLen) \cup ExampleExprs

\* the expressions that instances with field markers are made of: tokens
\* with one marker or both, with * before, after and without the right one
MarkedExprs ==
    { << "<", "a", "*", ">" >>,
      << "<", "a", ">", "*" >>,
      << "<", "a", "*" >>,
      << "a", "*", ">" >>,
      << "<", "<", "a", ">", ">" >>,
      << "<", "*", "a", "*", ">" >>,
      FieldExpr }

\* those of them that instances with any string of markers are made of
StringMarkedExprs ==
    { << "<", "a", "*", ">" >>,
      << "<", "<", "a", ">", ">" >> }

MaxMarkerLen == 4

MarkerChars == { "<", ">" }

\* the strings of markers
MarkerStrings == { JSString(m) : m \in Strings(MarkerChars, MaxMarkerLen) }

\* other values of the option fieldMarkers: the strings '<>' and '<*>'
\* (README.md lines 91 and 120), arrays of two strings and of fewer, objects
\* with the properties left and right, with one of them and with neither,
\* numbers and true
MarkerValues ==
    { JSString(<< "<", ">" >>),
      JSString(<< "<", "*", ">" >>),
      JSArray(<< << "<" >>, << ">" >> >>),
      JSArray(<< << "<" >>, << ">", "*" >> >>),
      JSArray(<< << "<" >>, << "*", ">" >> >>),
      JSArray(<< << "<", "*" >>, << ">" >> >>),
      JSArray(<< << >>, << ">" >> >>),
      JSArray(<< << "<" >>, << >> >>),
      JSArray(<< << "<" >> >>),
      JSArray(<< >>),
      JSObject(<< "<" >>, << ">" >>),
      JSObject(<< "<" >>, Undefined),
      JSObject(Undefined, << ">" >>),
      JSEmptyObject,
      JSNumber(5),
      JSNumber(0),
      JSBoolean(TRUE) }

\* the texts of at most MaxTextLen characters
ShortTexts == Strings(TextChars, MaxTextLen)

Texts == ShortTexts \cup ExampleTexts

(***************************************************************************)
(* The Simplex instance and its callers                                    *)
(***************************************************************************)
VARIABLES
    expression,        \* the constructor's first argument
    options,           \* the constructor's second argument
    phase,             \* "new", "threw" (the constructor threw), "ready",
                       \* or "scanning" (inside the while loop of matchAll)
    this,              \* the instance: its options and its matcher
    locals,            \* the locals of createMatcher when the constructor ended
    lastIndex,         \* this.matcher.pattern.lastIndex
    op,                \* the method called last: "none", "match", "matchAll"
    text,              \* its argument
    pattern,           \* matchAll's local pattern
    patternLastIndex,  \* pattern.lastIndex
    results,           \* matchAll's local results
    spans,             \* the span in text of the match behind each result
    result,            \* what the last call returned
    before,            \* what the call before it returned, when that was the
                       \* same method on the same text
    other              \* what the last call of the other method returned on
                       \* the same text

vars ==
    << expression, options, phase, this, locals, lastIndex, op, text, pattern,
       patternLastIndex, results, spans, result, before, other >>

\* the second argument of the constructor: nothing, a string of flags, or an
\* object with the properties global, strictWhitespace and fieldMarkers (an
\* absent global or strictWhitespace reads FALSE, an absent fieldMarkers
\* JSUndefined)
NoOptions ==
    [ kind |-> "undefined", flags |-> << >>, global |-> FALSE,
      strictWhitespace |-> FALSE, fieldMarkers |-> JSUndefined ]

FlagOptions(flags) == [ NoOptions EXCEPT !.kind = "string", !.flags = flags ]

ObjectOptions(global, strictWhitespace, fieldMarkers) ==
    [ kind |-> "object", flags |-> << >>, global |-> global,
      strictWhitespace |-> strictWhitespace, fieldMarkers |-> fieldMarkers ]

\* this.options = (typeof options === 'object' && options) || {}
SimplexOptions(opts) ==
    IF opts.kind = "object" THEN opts ELSE [ NoOptions EXCEPT !.kind = "object" ]

\* the values a method returns
NoResult == [ kind |-> "none", data |-> << >>, list |-> << >> ]

NullResult == [ NoResult EXCEPT !.kind = "null" ]

ObjectResult(data) == [ NoResult EXCEPT !.kind = "object", !.data = data ]

ArrayResult(list) == [ NoResult EXCEPT !.kind = "array", !.list = list ]

NoPattern == NewRegExp(<< >>, TRUE)

\* createMatcher has not been called
NoLocals == [ fieldMarkers |-> JSNull, tokens |-> << >>, pattern |-> << >> ]

\* the state in which Simplex(e, o) is about to be called
Start(e, o) ==
    /\ expression = e
    /\ options = o
    /\ phase = "new"
    /\ this = [ options |-> SimplexOptions(NoOptions), matcher |-> Threw ]
    /\ locals = NoLocals
    /\ lastIndex = 0
    /\ op = "none"
    /\ text = << >>
    /\ pattern = NoPattern
    /\ patternLastIndex = 0
    /\ results = << >>
    /\ spans = << >>
    /\ result = NoResult
    /\ before = NoResult
    /\ other = NoResult

\* the instance whose options are o and whose matcher is m
NewSimplex(o, m) ==
    /\ this' = [ options |-> o, matcher |-> m ]
    /\ phase' = IF m.threw THEN "threw" ELSE "ready"

\* new Simplex(expression, options)
Construct ==
    /\ phase = "new"
    /\ NewSimplex(SimplexOptions(options),
                  createMatcher(expression, SimplexOptions(options)))
    /\ locals' = createMatcherLocals(expression, SimplexOptions(options))
    /\ UNCHANGED << expression, options, lastIndex, op, text, pattern,
                    patternLastIndex, results, spans, result, before, other >>

\* what the caller sees of the call it is about to make: the result of the last
\* call when that was the same method on the same text
Earlier(o, t) == IF op = o /\ text = t THEN result ELSE NoResult

\* and the result of the last call of the other method on the same text
Other(o, t) ==
    IF op = "none" \/ text # t THEN NoResult
    ELSE IF op = o THEN other
    ELSE result

\* what exec returns and the lastIndex it leaves
ExecOnce(ex) == [ match |-> ex.match, lastIndex |-> ex.lastIndex ]

\* MatchFirst as this.matcher.pattern.exec(text) on a pattern with the global
\* flag, which resumes at lastIndex
MatchFirst_stateful(re, li, t) ==
    ExecOnce(RegExpExec([ re EXCEPT !.global = TRUE ], li, t))

\* the match m when it starts at index 0, null otherwise
AtStart(m) == IF m # Null /\ m.index = 0 THEN m ELSE Null

\* MatchFirst that finds the pattern at the start of the text only
MatchFirst_atStart(re, li, t) ==
    [ match |-> AtStart(StringMatch(t, re)), lastIndex |-> li ]

\* text.match(this.matcher.pattern) of match: the array or null, and the
\* lastIndex of this.matcher.pattern afterwards
MatchFirst(re, li, t) == [ match |-> StringMatch(t, re), lastIndex |-> li ]

\* MatchAllPattern without the 'g' flag
MatchAllPattern_notGlobal(re) == NewRegExp(RegExpSource(re), FALSE)

\* var pattern = new RegExp(this.matcher.pattern.source, 'g') of matchAll
MatchAllPattern(re) == NewRegExp(RegExpSource(re), TRUE)

\* the entry of matchAll(t), called as method o
EnterMatchAll(o, t) ==
    /\ phase' = "scanning"
    /\ op' = o
    /\ text' = t
    /\ before' = Earlier(o, t)
    /\ other' = Other(o, t)
    /\ pattern' = MatchAllPattern(this.matcher.pattern)
    /\ patternLastIndex' = 0
    /\ results' = << >>
    /\ spans' = << >>
    /\ UNCHANGED << expression, options, this, locals, lastIndex, result >>

\* the texts a caller passes: any text to the first call, and the text of the
\* last call again to every later one (an instance keeps nothing of a call
\* but lastIndex, so a later call on another text starts where a first call
\* on it does).  The texts of the examples, which are long, are passed to the
\* instances of the examples' expressions.
Callable(t) ==
    /\ op = "none" \/ t = text
    /\ t \in ShortTexts \/ expression \in ExampleExprs

\* match(t) without the global option, text.match having returned ex.match
ReturnFirst(t, ex) ==
    /\ result' = IF ex.match = Null THEN NullResult
                 ELSE ObjectResult(mapMatch(ex.match, this.matcher.map))
    /\ spans' = IF ex.match = Null THEN << >>
                ELSE << [ s |-> ex.match.index, e |-> ex.match.end ] >>
    /\ lastIndex' = ex.lastIndex
    /\ op' = "match"
    /\ text' = t
    /\ before' = Earlier("match", t)
    /\ other' = Other("match", t)
    /\ UNCHANGED << expression, options, phase, this, locals, pattern,
                    patternLastIndex, results >>

\* this.match(t)
Match(t) ==
    /\ phase = "ready"
    /\ Callable(t)
    /\ IF this.options.global
         THEN EnterMatchAll("match", t)
         ELSE ReturnFirst(t, MatchFirst(this.matcher.pattern, lastIndex, t))

\* this.matchAll(t)
MatchAll(t) ==
    /\ phase = "ready"
    /\ Callable(t)
    /\ EnterMatchAll("matchAll", t)

\* the model follows a scan for at most this many results
MaxResults == 6

\* Push that puts the result before the others
Push_inFront(ex) ==
    /\ ex.match # Null
    /\ results' = << mapMatch(ex.match, this.matcher.map) >> \o results
    /\ spans' = Append(spans, [ s |-> ex.match.index, e |-> ex.match.end ])
    /\ patternLastIndex' = ex.lastIndex

\* the body of the while loop, pattern.exec(text) having returned ex.match
Push(ex) ==
    /\ ex.match # Null
    /\ results' = Append(results, mapMatch(ex.match, this.matcher.map))
    /\ spans' = Append(spans, [ s |-> ex.match.index, e |-> ex.match.end ])
    /\ patternLastIndex' = ex.lastIndex

\* one round of while (regexMatch = pattern.exec(text)) that finds a match
ExecPush ==
    /\ phase = "scanning"
    /\ Len(results) < MaxResults
    /\ Push(RegExpExec(pattern, patternLastIndex, text))
    /\ UNCHANGED << expression, options, phase, this, locals, lastIndex, op, text,
                    pattern, result, before, other >>

\* the end of the while loop, pattern.exec(text) having returned null
Return(ex) ==
    /\ ex.match = Null
    /\ patternLastIndex' = ex.lastIndex
    /\ result' = ArrayResult(results)
    /\ phase' = "ready"

\* the round that finds none: the loop ends and matchAll returns results
ExecReturn ==
    /\ phase = "scanning"
    /\ Return(RegExpExec(pattern, patternLastIndex, text))
    /\ UNCHANGED << expression, options, this, locals, lastIndex, op, text, pattern,
                    results, spans, before, other >>

(***************************************************************************)
(* The instances and the behaviours of the model                           *)
(***************************************************************************)
AngleMarkers == JSString(<< "<", ">" >>)

\* the options of the instances made of any expression
OptionValues ==
    { NoOptions,
      ObjectOptions(TRUE, FALSE, JSUndefined),
      ObjectOptions(FALSE, TRUE, JSUndefined) }

\* the options of instances made of the examples' expressions only: a string
\* of flags, and the field markers '<>'
ExampleOptionValues ==
    { FlagOptions(<< "g" >>),
      ObjectOptions(FALSE, FALSE, AngleMarkers) }

MarkerOptionValues == { ObjectOptions(FALSE, FALSE, m) : m \in MarkerValues }

StringOptionValues == { ObjectOptions(FALSE, FALSE, m) : m \in MarkerStrings }

Init ==
    \/ \E e \in Exprs, o \in OptionValues : Start(e, o)
    \/ \E e \in ExampleExprs, o \in ExampleOptionValues : Start(e, o)
    \/ \E e \in MarkedExprs, o \in MarkerOptionValues : Start(e, o)
    \/ \E e \in StringMarkedExprs, o \in StringOptionValues : Start(e, o)

Next ==
    \/ Construct
    \/ \E t \in Texts : Match(t)
    \/ \E t \in Texts : MatchAll(t)
    \/ ExecPush
    \/ ExecReturn

Spec == Init /\ [][Next]_vars

(***************************************************************************)
(* The vocabulary of the properties                                        *)
(***************************************************************************)
\* the characters of the string s
Chars(s) == { s[k] : k \in 1..Len(s) }

\* the index after the run of characters of the set cs that starts at index i
\* of s
RunEnd(s, i, cs) ==
    CHOOSE j \in i..(Len(s) + 1) :
      /\ \A k \in i..(j - 1) : s[k] \in cs
      /\ j = Len(s) + 1 \/ s[j] \notin cs

RECURSIVE WordsFrom(_, _)
\* the maximal runs of word characters of s from index i on, in order
WordsFrom(s, i) ==
    IF i > Len(s) THEN << >>
    ELSE IF s[i] \in WordChars
      THEN << SubSeq(s, i, RunEnd(s, i, WordChars) - 1) >>
             \o WordsFrom(s, RunEnd(s, i, WordChars))
    ELSE WordsFrom(s, i + 1)

\* without field markers the fields of an expression are its words, and the
\* values of a text are its words
Words(s) == WordsFrom(s, 1)

RECURSIVE ShapeFrom(_, _, _)
\* s from index i on, read as an expression without field markers and without
\* multi-word fields reads: a field for every word, its runs of white space
\* (a run is any white space unless strict), and every other character as
\* the literal it is
ShapeFrom(s, i, strict) ==
    IF i > Len(s) THEN << >>
    ELSE IF s[i] \in WordChars THEN
      << [ k |-> "field", s |-> << >> ] >>
        \o ShapeFrom(s, RunEnd(s, i, WordChars), strict)
    ELSE IF s[i] \in SpaceChars THEN
      << [ k |-> "space",
           s |-> IF strict THEN SubSeq(s, i, RunEnd(s, i, SpaceChars) - 1)
                 ELSE << >> ] >>
        \o ShapeFrom(s, RunEnd(s, i, SpaceChars), strict)
    ELSE << [ k |-> "literal", s |-> << s[i] >> ] >> \o ShapeFrom(s, i + 1, strict)

Shape(s, strict) == ShapeFrom(s, 1, strict)

\* whether some stretch of the text t is what the expression e describes:
\* word for field, white space for white space, the literals as they are
Occurs(e, t, strict) ==
    \E i \in 0..Len(t) : \E j \in i..Len(t) :
      Shape(Substring(t, i, j), strict) = Shape(e, strict)

\* whether no word of the expression e is followed by *
NoStarToken(e) ==
    \A i \in 2..Len(e) : e[i] = "*" => e[i - 1] \notin WordChars

\* the value of the property key of the object data
Property(data, key) ==
    IF \E k \in 1..Len(data) : data[k].key = key
      THEN data[CHOOSE k \in 1..Len(data) : data[k].key = key].value
      ELSE UndefinedValue

\* the number of the field whose word ends at index i of the expression e
FieldIndex(e, i) ==
    Cardinality({ j \in 1..i :
                    e[j] \in WordChars /\ (j = Len(e) \/ e[j + 1] \notin WordChars) })

\* a call of match has returned on an instance made without a string of
\* flags, without the global option and without field markers
MatchedUnmarked ==
    /\ phase = "ready"
    /\ op = "match"
    /\ options.kind # "string"
    /\ ~this.options.global
    /\ ~Truthy(this.options.fieldMarkers)

IsSpaceRun(item) == item.k = "space"

\* the runs of white space of s, in order
SpaceRuns(s) == SelectSeq(Shape(s, TRUE), IsSpaceRun)

\* the stretch of the text that the match behind the first result took
Matched == Substring(text, spans[1].s, spans[1].e)

\* the index after the token between the markers < and > that starts at
\* index i of the expression e, or 0 when none starts there
TokenEnd(e, i) ==
    IF e[i] = "<" /\ i < Len(e) /\ e[i + 1] \in WordChars THEN
      LET j == RunEnd(e, i + 1, WordChars) IN
      IF j <= Len(e) /\ e[j] = ">" THEN j + 1
      ELSE IF j < Len(e) /\ e[j] = "*" /\ e[j + 1] = ">" THEN j + 2
      ELSE 0
    ELSE 0

\* the index of the first token of e at index i or later, Len(e) + 1 when
\* there is none
NextToken(e, i) ==
    CHOOSE j \in i..(Len(e) + 1) :
      /\ j = Len(e) + 1 \/ TokenEnd(e, j) > 0
      /\ \A k \in i..(j - 1) : TokenEnd(e, k) = 0

RECURSIVE MarkedNames(_, _)
\* the names between the markers < and > in e from index i on
MarkedNames(e, i) ==
    IF i > Len(e) THEN << >>
    ELSE IF TokenEnd(e, i) > 0
      THEN << SubSeq(e, i + 1, RunEnd(e, i + 1, WordChars) - 1) >>
             \o MarkedNames(e, TokenEnd(e, i))
    ELSE MarkedNames(e, i + 1)

RECURSIVE Rewritten(_, _, _)
\* e from index i on with a capture in place of every token, markers
\* included, and the text between the tokens as getPatternSegment writes it
Rewritten(e, i, opts) ==
    IF i > Len(e) THEN << >>
    ELSE IF TokenEnd(e, i) > 0
      THEN (IF e[TokenEnd(e, i) - 2] = "*" THEN MultiwordCapture ELSE WordCapture)
             \o Rewritten(e, TokenEnd(e, i), opts)
    ELSE getPatternSegment(SubSeq(e, i, NextToken(e, i) - 1), opts)
           \o Rewritten(e, NextToken(e, i), opts)

\* the result object with the string values vals for the names keys
Strs(keys, vals) ==
    ObjectResult([ k \in 1..Len(keys) |->
                     [ key |-> keys[k], value |-> StringValue(vals[k]) ] ])

(***************************************************************************)
(* The properties                                                          *)
(***************************************************************************)

\* C1: on an instance without field markers whose expression has no field
\* followed by *, match of a text that is the expression with a word in place
\* of every field returns an object in which every field's value is that
\* word of the text, as a string.
C1_VerbatimValues ==
    ( /\ MatchedUnmarked
      /\ NoStarToken(expression)
      /\ Shape(text, TRUE) = Shape(expression, TRUE) )
    => /\ result.kind = "object"
       /\ \A i \in 1..Len(Words(expression)) :
            Property(result.data, Words(expression)[i])
              = StringValue(Words(text)[i])

\* C2: the pattern of a matcher has as many capturing groups as the matcher
\* has names, and without field markers the names are the words of the
\* expression in their order.
C2_GroupsMatchNames ==
    phase \in { "ready", "scanning" }
    => /\ this.matcher.pattern.groups = Len(this.matcher.map)
       /\ ~Truthy(this.options.fieldMarkers)
            => this.matcher.map = Words(expression)

\* C3 as the claim states it: '<tags*>' with the field markers '<>' matched
\* against 'blah <foo bar> blah' gives { tags: 'foo bar' }.
C3_TagsWithMarkers ==
    ( /\ phase = "ready"
      /\ op = "match"
      /\ expression = TagsExpr
      /\ options = ObjectOptions(FALSE, FALSE, AngleMarkers)
      /\ text = TagsText )
    => result = Strs(<< << "t", "a", "g", "s" >> >>, << << "f", "o", "o", " ", "b", "a", "r" >> >>)

\* C3 as amended: '<tags*>' without field markers matched against
\* 'blah <foo bar> blah' gives { tags: 'foo bar' }.
C3_TagsWithoutMarkers ==
    ( /\ phase = "ready"
      /\ op = "match"
      /\ expression = TagsExpr
      /\ options = NoOptions
      /\ text = TagsText )
    => result = Strs(<< << "t", "a", "g", "s" >> >>, << << "f", "o", "o", " ", "b", "a", "r" >> >>)

C3_Witness ==
    /\ phase = "ready"
    /\ op = "match"
    /\ expression = TagsExpr
    /\ options = NoOptions
    /\ text = TagsText
    /\ result.kind = "object"

\* C4: with the field markers '<>' the names of a matcher are the names
\* between markers in the expression and no other word of it, its pattern is
\* the expression with a capture in place of every token, markers included,
\* and '--format=<format>' matched against '--format=html' gives
\* { format: 'html' }.
C4_MarkersDelimitTokens ==
    ( /\ phase \in { "ready", "scanning" }
      /\ this.options.fieldMarkers = AngleMarkers )
    => /\ this.matcher.map = MarkedNames(expression, 1)
       /\ this.matcher.pattern.pattern = Rewritten(expression, 1, this.options)
       /\ ( /\ phase = "ready"
            /\ op = "match"
            /\ ~this.options.global
            /\ expression = FormatExpr
            /\ text = FormatText )
          => result = Strs(<< << "f", "o", "r", "m", "a", "t" >> >>, << << "h", "t", "m", "l" >> >>)

C4_Witness ==
    /\ phase = "ready"
    /\ op = "match"
    /\ this.options.fieldMarkers = AngleMarkers
    /\ expression = FormatExpr
    /\ text = FormatText
    /\ result.kind = "object"
    /\ this.matcher.map = << << "f", "o", "r", "m", "a", "t" >> >>

\* C5: when a field of the expression is followed by * and then by a
\* separator (a character that is no word character, no white space and no
\* *), the value match captures for the field does not contain the separator.
C5_StopsAtSeparator ==
    ( MatchedUnmarked /\ result.kind = "object" )
    => \A i \in 1..(Len(expression) - 2) :
         ( /\ expression[i] \in WordChars
           /\ expression[i + 1] = "*"
           /\ expression[i + 2] \notin (WordChars \cup SpaceChars \cup { "*" }) )
         => LET value == Element(StringMatch(text, this.matcher.pattern),
                                 FieldIndex(expression, i))
            IN value # Undefined => expression[i + 2] \notin Chars(value)

\* C6: on an instance without field markers whose expression has no *, the
\* text a match took has a run of white space for every run of white space of
\* the expression and no other, and with strictWhitespace the same runs; when
\* the expression is words and white space only, match finds a match exactly
\* when the text has a stretch with a word for every word and a run of white
\* space for every run (any run of white space unless strictWhitespace, the
\* same run with it).  'a b c' matches 'foo   bar\tbaz' in the first case
\* and not in the second.
C6_WhitespaceMatching ==
    ( MatchedUnmarked /\ "*" \notin Chars(expression) )
    => /\ result.kind = "object"
            => IF this.options.strictWhitespace
                 THEN SpaceRuns(Matched) = SpaceRuns(expression)
                 ELSE Len(SpaceRuns(Matched)) = Len(SpaceRuns(expression))
       /\ Chars(expression) \subseteq (WordChars \cup SpaceChars)
            => ( (result.kind = "object")
                   <=> Occurs(expression, text, this.options.strictWhitespace) )
       /\ ( expression = WordsExpr /\ text = WordsText )
            => result =
                 IF this.options.strictWhitespace THEN NullResult
                 ELSE Strs(<< << "a" >>, << "b" >>, << "c" >> >>,
                           << << "f", "o", "o" >>, << "b", "a", "r" >>, << "b", "a", "z" >> >>)

\* C7: while matchAll scans, and when it has returned, every match it has
\* found is the leftmost occurrence of the pattern that starts at the end of
\* the match before it or later (at 0 or later for the first), so the matches
\* are in the order of the text and share no character; it returns one result
\* for each, in that order, when no occurrence is left.  'pairName=[x,y]' on
\* 'foo=[a,b]&bar=[c,d]' gives the result of foo and then that of bar.
C7_NonOverlappingInOrder ==
    ( phase = "scanning" \/ (phase = "ready" /\ result.kind = "array") )
    => /\ \A k \in 1..Len(spans) :
            LET from == IF k = 1 THEN 0 ELSE spans[k - 1].e
                found == SearchFrom(this.matcher.pattern, text, from)
            IN /\ found.ok
               /\ spans[k] = [ s |-> found.index, e |-> found.end ]
               /\ from <= spans[k].s
               /\ results[k] = mapMatch(MatchArray(text, found), this.matcher.map)
       /\ phase = "ready"
            => /\ result.list = results
               /\ ~SearchFrom(this.matcher.pattern, text,
                              IF spans = << >> THEN 0 ELSE spans[Len(spans)].e).ok
               /\ ( /\ ~Truthy(this.options.fieldMarkers)
                    /\ expression = PairExpr
                    /\ text = PairText )
                  => result.list =
                       << Strs(<< << "p", "a", "i", "r", "N", "a", "m", "e" >>, << "x" >>, << "y" >> >>,
                               << << "f", "o", "o" >>, << "a" >>, << "b" >> >>).data,
                          Strs(<< << "p", "a", "i", "r", "N", "a", "m", "e" >>, << "x" >>, << "y" >> >>,
                               << << "b", "a", "r" >>, << "c" >>, << "d" >> >>).data >>

C7_Witness ==
    /\ phase = "ready"
    /\ op = "matchAll"
    /\ expression = PairExpr
    /\ text = PairText
    /\ Len(result.list) = 2
    /\ spans[1].e <= spans[2].s

\* C8: the scan of matchAll advances on every round of its loop: after k
\* rounds that found a match its position is k or more (so that a text of n
\* characters ends it after n + 1 rounds at most).
C8_ScanAdvances ==
    phase = "scanning" => patternLastIndex >= Len(results)

\* C9: on an instance made with a string of flags that contains g, match
\* returns the sequence of all matches.
C9_FlagStringSetsGlobal ==
    ( /\ phase = "ready"
      /\ op = "match"
      /\ options.kind = "string"
      /\ "g" \in Chars(options.flags) )
    => result.kind = "array"

\* C10: a call of match or matchAll that follows a call of the same method on
\* the same text returns what that call returned, the lastIndex of the
\* instance's pattern stays 0, and every scan of matchAll starts at 0.
C10_CallsAreIndependent ==
    /\ (phase = "ready" /\ before # NoResult) => result = before
    /\ lastIndex = 0
    /\ (phase = "scanning" /\ results = << >>) => patternLastIndex = 0

C10_Witness ==
    /\ phase = "ready"
    /\ op = "match"
    /\ before # NoResult
    /\ before.kind = "object"
    /\ result = before
    /\ Len(text) > 0

\* the option fieldMarkers of the instance, and the markers createMatcher
\* resolved it to (Undefined for one it has not)
GivenMarkers == this.options.fieldMarkers

LeftMarker == Index(locals.fieldMarkers, 0)

RightMarker == Index(locals.fieldMarkers, 1)

\* the n characters of s after its first k
Slice(s, k, n) == [ j \in 1..n |-> s[k + j] ]

\* whether the string s starts and ends with the string m
StartsWith(s, m) == Len(m) <= Len(s) /\ Slice(s, 0, Len(m)) = m

EndsWith(s, m) == Len(m) <= Len(s) /\ Slice(s, Len(s) - Len(m), Len(m)) = m

\* C11: when the option fieldMarkers is a string of 2n characters, n >= 1, the
\* left marker createMatcher works with is the first n characters of it and
\* the right marker the last n.
C11_EvenStringSplitsInHalves ==
    ( /\ phase # "new"
      /\ GivenMarkers.kind = "string"
      /\ Len(GivenMarkers.s) >= 2
      /\ Len(GivenMarkers.s) % 2 = 0 )
    => /\ LeftMarker = Slice(GivenMarkers.s, 0, Len(GivenMarkers.s) \div 2)
       /\ RightMarker = Slice(GivenMarkers.s, Len(GivenMarkers.s) \div 2,
                              Len(GivenMarkers.s) \div 2)

C11_Witness ==
    /\ phase = "ready"
    /\ GivenMarkers = JSString(<< "<", "<", ">", ">" >>)
    /\ LeftMarker = << "<", "<" >>
    /\ RightMarker = << ">", ">" >>
    /\ expression = << "<", "<", "a", ">", ">" >>
    /\ this.matcher.map = << << "a" >> >>

\* C12: when the option fieldMarkers is a string of 2n + 1 characters, the
\* left marker is the first n + 1 characters of it and the right marker the
\* last n + 1: the middle character is on both sides.
C12_OddStringSharesMiddle ==
    ( /\ phase # "new"
      /\ GivenMarkers.kind = "string"
      /\ Len(GivenMarkers.s) % 2 = 1 )
    => /\ LeftMarker = Slice(GivenMarkers.s, 0, Len(GivenMarkers.s) \div 2 + 1)
       /\ RightMarker = Slice(GivenMarkers.s, Len(GivenMarkers.s) \div 2,
                              Len(GivenMarkers.s) \div 2 + 1)

\* the side of an object of markers: the empty string when it is missing
Side(v) == IF v = Undefined THEN << >> ELSE v

\* C13: when the option fieldMarkers is an object with the properties left
\* and right, or with one of them, every token createMatcher finds starts with
\* left and ends with right (a missing side being the empty string), and with
\* { left: '<', right: '>' } the names are the names between < and > in the
\* expression and no other word of it.
C13_ObjectGivesDelimiters ==
    ( /\ phase # "new"
      /\ GivenMarkers.kind = "object"
      /\ GivenMarkers.left # Undefined \/ GivenMarkers.right # Undefined )
    => /\ \A k \in 1..Len(locals.tokens) :
            /\ StartsWith(locals.tokens[k].text, Side(GivenMarkers.left))
            /\ EndsWith(locals.tokens[k].text, Side(GivenMarkers.right))
       /\ GivenMarkers = JSObject(<< "<" >>, << ">" >>)
            => this.matcher.map = MarkedNames(expression, 1)

\* whether createMatcher has a way to read markers from the value v: it is
\* absent, a string, an array of two, or an object with left or right
Recognized(v) ==
    \/ v.kind \in { "undefined", "null", "string" }
    \/ v.kind = "array" /\ Len(v.items) = 2
    \/ v.kind = "object" /\ (v.left # Undefined \/ v.right # Undefined)

\* C14: when the option fieldMarkers is none of these, the constructor does
\* not throw and the names of the matcher are the words of the expression,
\* as without field markers.
C14_OtherValuesMeanNoMarkers ==
    ( phase # "new" /\ ~Recognized(GivenMarkers) )
    => /\ phase # "threw"
       /\ this.matcher.map = Words(expression)

\* the number of the last field of the matcher whose name is name
LastField(name) ==
    CHOOSE i \in 1..Len(this.matcher.map) :
      /\ this.matcher.map[i] = name
      /\ \A j \in (i + 1)..Len(this.matcher.map) : this.matcher.map[j] # name

\* a call of match has returned an object on an instance without the global
\* option
MatchedObject ==
    /\ phase = "ready"
    /\ op = "match"
    /\ ~this.options.global
    /\ result.kind = "object"

\* C15: the matcher has a name for every token of the expression, also when
\* names are the same, and the object match returns has one property for
\* every different name, whose value is what the group of the last token of
\* that name captured.  'a a' on 'x y' gives { a: 'y' }.
C15_LastOccurrenceWins ==
    /\ phase \in { "ready", "scanning" } =>
         this.matcher.map = [ k \in 1..Len(locals.tokens) |-> locals.tokens[k].name ]
    /\ MatchedObject =>
         /\ LET found == StringMatch(text, this.matcher.pattern) IN
            \A k \in 1..Len(this.matcher.map) :
              /\ Cardinality({ j \in 1..Len(result.data) :
                                 result.data[j].key = this.matcher.map[k] }) = 1
              /\ Property(result.data, this.matcher.map[k])
                   = weakParse(Element(found, LastField(this.matcher.map[k])))
         /\ \A j \in 1..Len(result.data) :
              \E k \in 1..Len(this.matcher.map) :
                result.data[j].key = this.matcher.map[k]
         /\ ( /\ expression = RepeatExpr
              /\ text = RepeatText
              /\ ~Truthy(this.options.fieldMarkers) )
            => result = Strs(<< << "a" >> >>, << << "y" >> >>)

C15_Witness ==
    /\ MatchedObject
    /\ expression = RepeatExpr
    /\ text = RepeatText
    /\ this.matcher.map = << << "a" >>, << "a" >> >>
    /\ result = Strs(<< << "a" >> >>, << << "y" >> >>)

\* whether the pattern of the matcher occurs in the text: it matches the
\* stretch of the text that starts at some index
PatternOccurs ==
    \E i \in 0..Len(text) :
      MatchNodes(this.matcher.pattern.nodes, text, i,
                 [ k \in 1..this.matcher.pattern.groups |-> NoSpan ]).ok

\* C16: on an instance without the global option match returns null or an
\* object, null exactly when the pattern of the matcher occurs nowhere in the
\* text, and matchAll of a text in which it occurs nowhere returns the empty
\* array.
C16_NullWhenNoOccurrence ==
    ( phase = "ready" /\ ~this.options.global )
    => /\ op = "match"
            => /\ result.kind \in { "null", "object" }
               /\ result.kind = "null" <=> ~PatternOccurs
       /\ ( op = "matchAll" /\ ~PatternOccurs )
            => result = ArrayResult(<< >>)

C16_Witness ==
    /\ phase = "ready"
    /\ ~this.options.global
    /\ op = "match"
    /\ result = NullResult
    /\ before = NullResult
    /\ Len(text) > 0
    /\ Len(this.matcher.map) > 0
    /\ ~PatternOccurs

RECURSIVE Denotes(_)
\* the number that the string of decimal digits s denotes
Denotes(s) ==
    IF s = << >> THEN 0
    ELSE 10 * Denotes(SubSeq(s, 1, Len(s) - 1)) + DigitValue(s[Len(s)])

\* the value that type inference gives the captured string s
Inferred(s) ==
    IF s # << >> /\ Chars(s) \subseteq Digits THEN NumberValue(Denotes(s))
    ELSE IF s = << "t", "r", "u", "e" >> THEN BooleanValue(TRUE)
    ELSE IF s = << "f", "a", "l", "s", "e" >> THEN BooleanValue(FALSE)
    ELSE StringValue(s)

\* C17: the value of every field in the object match returns is the string
\* its group captured with its type inferred: the number a string of digits
\* denotes, true for 'true', false for 'false', and the string itself
\* otherwise.
C17_TypeInference ==
    ( MatchedObject /\ options.kind # "string" )
    => \A k \in 1..Len(this.matcher.map) :
         LET captured == Element(StringMatch(text, this.matcher.pattern),
                                 LastField(this.matcher.map[k]))
         IN captured # Undefined
              => Property(result.data, this.matcher.map[k]) = Inferred(captured)

\* the index after the k-th token createMatcher found
EndOfToken(k) == locals.tokens[k].start + Len(locals.tokens[k].text)

RECURSIVE Assembled(_, _)
\* the pattern text for the expression from index from on, whose next token
\* is the k-th: the text before the token as getPatternSegment writes it, the
\* token's placeholder, and so on to the end of the expression
Assembled(k, from) ==
    IF k > Len(locals.tokens)
      THEN getPatternSegment(SubstringFrom(expression, from), this.options)
      ELSE getPatternSegment(Substring(expression, from, locals.tokens[k].start),
                             this.options)
             \o locals.tokens[k].capture
             \o Assembled(k + 1, EndOfToken(k))

\* C18: the tokens createMatcher finds are stretches of the expression, in
\* its order and apart, and the pattern is, in that order, the text between
\* them as getPatternSegment writes it, a placeholder for each token, and all
\* the text after the last token, be it one character: the pattern of
\* '(x, y)' ends with the bracket.
C18_ScanLosesNoCharacter ==
    phase \in { "ready", "scanning" }
    => /\ \A k \in 1..Len(locals.tokens) :
            /\ EndOfToken(k) <= Len(expression)
            /\ locals.tokens[k].text
                 = Substring(expression, locals.tokens[k].start, EndOfToken(k))
            /\ k > 1 => EndOfToken(k - 1) <= locals.tokens[k].start
       /\ this.matcher.pattern.pattern = Assembled(1, 0)
       /\ ( expression = PointExpr /\ options = NoOptions )
            => this.matcher.pattern.pattern
                 = << "\\", "(" >> \o WordCapture \o << ",", "\\", "s", "+" >>
                     \o WordCapture \o << "\\", ")" >>

C18_Witness ==
    /\ phase = "ready"
    /\ expression = PointExpr
    /\ options = NoOptions
    /\ Len(locals.tokens) = 2
    /\ EndOfToken(2) = Len(expression) - 1
    /\ EndsWith(this.matcher.pattern.pattern, << "\\", ")" >>)

\* C19: a token createMatcher finds gets the placeholder of a multi-word
\* field exactly when its text ends with its name, a * and the right marker
\* (with the name and a * when there is no right marker).
C19_StarBeforeRightMarker ==
    phase # "new"
    => \A k \in 1..Len(locals.tokens) :
         (locals.tokens[k].capture = MultiwordCapture)
           <=> EndsWith(locals.tokens[k].text,
                        locals.tokens[k].name \o << "*" >> \o Side(RightMarker))

\* what match and matchAll returned, both having been called on the text
OfMatch == IF op = "match" THEN result ELSE other

OfMatchAll == IF op = "matchAll" THEN result ELSE other

\* C20: on an instance without the global option, when match and matchAll
\* have both returned on a text, match returned null exactly when matchAll
\* returned the empty array, and otherwise the first result of matchAll.
C20_MatchIsFirstOfMatchAll ==
    ( phase = "ready" /\ ~this.options.global /\ other # NoResult )
    => /\ OfMatch = NullResult <=> OfMatchAll.list = << >>
       /\ OfMatch # NullResult => OfMatch = ObjectResult(OfMatchAll.list[1])

C20_Witness ==
    /\ phase = "ready"
    /\ ~this.options.global
    /\ op = "matchAll"
    /\ other.kind = "object"
    /\ Len(result.list) = 2
    /\ result.list[1] # result.list[2]
    /\ other = ObjectResult(result.list[1])

====
